---- MODULE Spec2Model ----
(***************************************************************************)
(* apt-show-versions.cc: the upgrade-state classifier, the distribution    *)
(* name attribution, the reporter and the driver (main).                   *)
(*                                                                         *)
(* Strings are sequences of atoms.  An atom is a TLA+ string standing for  *)
(* a run of non-blank characters, or one of the blank atoms " " and "\n".  *)
(* The empty sequence is the empty string / the null char pointer.         *)
(***************************************************************************)
EXTENDS Integers, Sequences, FiniteSets, TLC

VARIABLES
    files,      \* cache: PkgFile table, file ID -> [archive, codename, site, notSource, prio]
    srcs,       \* pkgSourceList *list: sequence of [dist, indexes]
    pkgs,       \* cache: Package table, sequence of package records
    grps,       \* cache: Group table in ID order, sequence of [name, pkgs]
    endVerID,   \* what ->ID reads through an end VerIterator (cache header bytes)
    endVerBad,  \* whether VerStr() through an end VerIterator faults
    resolver,   \* APT::PackageSet::FromString: pattern -> [ctor, pkgs] on this cache
    conf,       \* _config: the apt::show-versions::* options
    argv,       \* the positional patterns of the command line
    fileList,   \* cmd.FileList: argv, until main replaces it for -p
    cacheNull,  \* cachefile.GetPkgCache() returned NULL
    diag,       \* _error: the error messages pushed so far
    map,        \* find_distribution_name's static std::map
    pc,         \* position in main ("apply" in the specifications of one function)
    idx,        \* loop index of main's walk / pattern loop
    order,      \* main: the sorted groups vector
    out,        \* std::cout, one record [pkg, text] per show_upgrade_info call that wrote
    visited,    \* packages handed to show_upgrade_info, in call order
    exitCode,   \* the process's exit code (-1 while running)
    first,      \* history: what the first find_distribution_name call on a file returned
    arg,        \* argument of the last direct call of a function
    ret         \* value returned by the last direct call of a function

vars == <<files, srcs, pkgs, grps, endVerID, endVerBad, resolver, conf, argv, fileList,
          cacheNull, diag, map, first, pc, idx, order, out, visited, exitCode, arg, ret>>

cacheVars == <<files, srcs, pkgs, grps, endVerID, endVerBad, resolver>>
inputVars == <<conf, argv, cacheNull>>

(***************************************************************************)
(* Bounds of the model.                                                    *)
(***************************************************************************)
MaxVers == 3
MaxFiles == 2
MaxSrc == 2
MaxPat == 2

(***************************************************************************)
(* enum upgrade_state, in declaration order.                               *)
(***************************************************************************)
UPGRADE_NOT_INSTALLED == 0
UPGRADE_NOT_AVAIL == 1
UPGRADE_UPTODATE == 2
UPGRADE_DOWNGRADE == 3
UPGRADE_AUTOMATIC == 4
UPGRADE_MANUAL == 5
\* __builtin_trap() at the end of determine_upgradeability: no state is returned
TRAPPED == 6

UpgradeStates == {UPGRADE_NOT_INSTALLED, UPGRADE_NOT_AVAIL, UPGRADE_UPTODATE,
                  UPGRADE_DOWNGRADE, UPGRADE_AUTOMATIC, UPGRADE_MANUAL}

\* pkgCache::State::Hold, the index of "hold" in describe_state's selections[]
StateHold == 2

(***************************************************************************)
(* Iterators.  A version iterator of package p is an index into p.vers,    *)
(* 0 being the end iterator; a file-list iterator of a version likewise.   *)
(***************************************************************************)
IsGood(i) == i # 0

\* ->NextVer of the version at position i (0: none)
NextVer(p, i) == IF i < Len(p.vers) THEN i + 1 ELSE 0

\* p.VersionList()
VersionList(p) == IF Len(p.vers) > 0 THEN 1 ELSE 0

\* ver.FileList()->NextFile of the version at position i (0: none)
NextFile(p, i) == IF Len(p.vers[i].files) > 1 THEN 2 ELSE 0

\* iterator->ID; through the end iterator this reads the cache header
VerID(p, i) == IF IsGood(i) THEN p.vers[i].id ELSE endVerID

determine_upgradeability_manual_inverted(p) ==
    LET current == p.cur
        candidate == p.cand
        newer == VersionList(p)
    IN  IF ~IsGood(current) THEN UPGRADE_NOT_INSTALLED
        ELSE IF NextVer(p, VersionList(p)) = 0 /\ NextFile(p, current) = 0
            THEN UPGRADE_NOT_AVAIL
        ELSE IF VerID(p, candidate) # VerID(p, current) THEN UPGRADE_AUTOMATIC
        ELSE IF NextFile(p, current) # 0 THEN UPGRADE_UPTODATE
        ELSE IF IsGood(newer) /\ VerID(p, newer) = VerID(p, current)
            THEN UPGRADE_MANUAL
        ELSE IF NextVer(p, current) # 0 THEN UPGRADE_DOWNGRADE
        ELSE TRAPPED

determine_upgradeability_uptodate_first(p) ==
    LET current == p.cur
        candidate == p.cand
        newer == VersionList(p)
    IN  IF ~IsGood(current) THEN UPGRADE_NOT_INSTALLED
        ELSE IF NextVer(p, VersionList(p)) = 0 /\ NextFile(p, current) = 0
            THEN UPGRADE_NOT_AVAIL
        ELSE IF VerID(p, candidate) # VerID(p, current) THEN UPGRADE_AUTOMATIC
        ELSE IF NextFile(p, current) # 0 \/ IsGood(candidate) THEN UPGRADE_UPTODATE
        ELSE IF IsGood(newer) /\ VerID(p, newer) # VerID(p, current)
            THEN UPGRADE_MANUAL
        ELSE IF NextVer(p, current) # 0 THEN UPGRADE_DOWNGRADE
        ELSE TRAPPED

determine_upgradeability(p) ==
    LET current == p.cur
        candidate == p.cand
        newer == VersionList(p)
    IN  IF ~IsGood(current) THEN UPGRADE_NOT_INSTALLED
        ELSE IF NextVer(p, VersionList(p)) = 0 /\ NextFile(p, current) = 0
            THEN UPGRADE_NOT_AVAIL
        ELSE IF VerID(p, candidate) # VerID(p, current) THEN UPGRADE_AUTOMATIC
        ELSE IF NextFile(p, current) # 0 THEN UPGRADE_UPTODATE
        ELSE IF IsGood(newer) /\ VerID(p, newer) # VerID(p, current)
            THEN UPGRADE_MANUAL
        ELSE IF NextVer(p, current) # 0 THEN UPGRADE_DOWNGRADE
        ELSE TRAPPED

(***************************************************************************)
(* Strings.                                                                *)
(***************************************************************************)
\* std::string::find_first_of(c): the first position of c from position i on, 0 for npos
RECURSIVE find_first_from(_, _, _)
find_first_from(s, c, i) ==
    IF i > Len(s) THEN 0
    ELSE IF s[i] = c THEN i
    ELSE find_first_from(s, c, i + 1)

find_first_of(s, c) == find_first_from(s, c, 1)

\* std::string::erase(pos): drops everything from position pos on
erase(s, pos) == SubSeq(s, 1, pos - 1)

\* lines 86-90: GetDist(), cut at the first '/'
dist_of_entry(e) ==
    LET distro == e.dist
        subdistro == find_first_of(distro, "/")
    IN  IF subdistro # 0 THEN erase(distro, subdistro) ELSE distro

\* lines 92-93: the entry's name is one of the file's own labels
labels_agree_always(f, distro) == TRUE

labels_agree(f, distro) ==
    \/ (files[f].archive # <<>> /\ distro = files[f].archive)
    \/ (files[f].codename # <<>> /\ distro = files[f].codename)

\* lines 82-97: the first source entry, from position i on, that has an index file
\* found in the cache as f and whose name agrees with f; 0 when there is none
RECURSIVE scan_sources(_, _)
scan_sources(f, i) ==
    IF i > Len(srcs) THEN 0
    ELSE IF (\E filep \in srcs[i].indexes : filep = f)
            /\ labels_agree(f, dist_of_entry(srcs[i])) THEN i
    ELSE scan_sources(f, i + 1)

\* lines 94, 100, 102, 103: map[file->ID] = name
memoize(m, f, name) ==
    [ret |-> name, map |-> [g \in DOMAIN m \cup {f} |-> IF g = f THEN name ELSE m[g]]]

\* lines 82-103, with hit the result of the scan of the source list
name_after_scan(f, hit) ==
    IF hit # 0 THEN dist_of_entry(srcs[hit])
    ELSE IF files[f].archive # <<>> THEN files[f].archive
    ELSE IF files[f].codename # <<>> THEN files[f].codename
    ELSE <<>>

\* find_distribution_name on the memo m: [ret |-> the name, map |-> the memo after]
find_distribution_name(m, f) ==
    IF f \in DOMAIN m THEN [ret |-> m[f], map |-> m]
    ELSE memoize(m, f, name_after_scan(f, scan_sources(f, 1)))

(***************************************************************************)
(* my_name.                                                                *)
(***************************************************************************)
\* p.FullName(true)
FullName(p) == p.name \o <<":">> \o p.arch

\* ver.VerStr()
VerStr(p, i) == IF IsGood(i) THEN p.vers[i].str ELSE <<"<junk>">>

\* lines 130-134, with d what find_distribution_name returned; st is [my, prio, map]
my_name_assign(p, this_prio, st, d) ==
    IF d.ret # <<>>
    THEN [my |-> FullName(p) \o <<"/">> \o d.ret, prio |-> this_prio, map |-> d.map]
    ELSE [my |-> st.my, prio |-> st.prio, map |-> d.map]

\* lines 124-134: one pass of the loop body on the origin file vf
my_name_body(p, vf, st) ==
    IF files[vf].notSource THEN st
    ELSE IF st.my # <<>> /\ st.prio >= files[vf].prio THEN st
    ELSE my_name_assign(p, files[vf].prio, st, find_distribution_name(st.map, vf))

\* The loop of my_name: vf is fixed by the loop's init statement, the loop's
\* increment advances the version iterator c.
RECURSIVE my_name_loop(_, _, _, _)
my_name_loop(p, vf, c, st) ==
    IF ~IsGood(c) THEN [ret |-> IF st.my = <<>> THEN FullName(p) ELSE st.my, map |-> st.map]
    ELSE my_name_loop(p, vf, NextVer(p, c), my_name_body(p, vf, st))

\* my_name(p, c) on the memo m: [ret |-> the display name, map |-> the memo after]
my_name(m, p, c) ==
    IF ~IsGood(c) THEN [ret |-> FullName(p), map |-> m]
    ELSE my_name_loop(p, p.vers[c].files[1], c, [my |-> <<>>, prio |-> 0, map |-> m])

(***************************************************************************)
(* The reporter.                                                           *)
(***************************************************************************)
official_suites == << <<>>, <<"oldstable">>, <<"stable">>, <<"proposed-updates">>,
                      <<"stable-updates">>, <<"testing">>,
                      <<"testing-proposed-updates">>, <<"testing-updates">>,
                      <<"unstable">>, <<"experimental">> >>

selections == <<"unknown", "install", "hold", "deinstall", "purge">>
installs == <<"ok", "reinstreq", "hold", "hold-reinstreq">>
currents == <<"not-installed", "unpacked", "half-configured", "INVALID",
              "half-installed", "config-files", "installed", "triggers-awaited",
              "triggers-pending">>

\* describe_state: the three status words (C arrays are 0-based)
describe_state(p) ==
    <<" ", selections[p.sel + 1], " ", installs[p.inst + 1], " ", currents[p.curst + 1]>>

suite_is_in_cache(name) ==
    \E f \in DOMAIN files : files[f].archive # <<>> /\ files[f].archive = name

suite_is_official(f) ==
    \E s \in 1..Len(official_suites) :
        official_suites[s] # <<>> /\ files[f].archive # <<>>
        /\ official_suites[s] = files[f].archive

\* print_only: the stream the tail of a verdict line is written to
print_only(text) ==
    IF ~conf.brief THEN [text |-> text, null |-> FALSE]
    ELSE [text |-> text \o <<"\n">>, null |-> TRUE]

\* operator << on the stream print_only returned
Put(s, t) == IF s.null THEN s.text ELSE s.text \o t

\* std::setw(w) with std::ios::left: fill with blanks up to width w
RECURSIVE Blanks(_)
Blanks(n) == IF n <= 0 THEN <<>> ELSE <<" ">> \o Blanks(n - 1)

SetwLeft(s, w) == s \o Blanks(w - Len(s))

Max(a, b) == IF a > b THEN a ELSE b

\* TablePrinter::max[i] after every insert(Columns)
RECURSIVE TableMax(_, _, _)
TableMax(lines, i, k) ==
    IF k > Len(lines) THEN 0
    ELSE Max(IF lines[k].tag = 1 THEN Len(lines[k].l[i]) ELSE 0, TableMax(lines, i, k + 1))

\* TablePrinter::output, from line k on
RECURSIVE TableOutput(_, _)
TableOutput(lines, k) ==
    IF k > Len(lines) THEN <<>>
    ELSE (IF lines[k].tag = 0 THEN lines[k].s
          ELSE SetwLeft(lines[k].l[1], TableMax(lines, 1, 1) + 1)
               \o SetwLeft(lines[k].l[2], TableMax(lines, 2, 1) + 1)
               \o SetwLeft(lines[k].l[3], TableMax(lines, 3, 1) + 1)
               \o SetwLeft(lines[k].l[4], TableMax(lines, 4, 1)))
         \o <<"\n">> \o TableOutput(lines, k + 1)

\* lines 343-347: the row of origin file f of version ver, d being what
\* find_distribution_name returned; acc is [lines, map, found]
sav_insert(p, ver, f, d) ==
    [lines |-> <<[tag |-> 1, s |-> <<>>,
                  l |-> <<FullName(p), VerStr(p, ver), d.ret, files[f].site>>]>>,
     map |-> d.map, found |-> TRUE]

\* show_all_versions, innermost loop: the origin files of version ver from vf on
RECURSIVE sav_files(_, _, _, _, _)
sav_files(p, release, ver, vf, acc) ==
    IF vf > Len(p.vers[ver].files) THEN acc
    ELSE IF files[p.vers[ver].files[vf]].notSource
        THEN sav_files(p, release, ver, vf + 1, acc)
    ELSE IF release = 1 /\ suite_is_official(p.vers[ver].files[vf])
        THEN sav_files(p, release, ver, vf + 1, acc)
    ELSE IF release # 1 /\ files[p.vers[ver].files[vf]].archive # official_suites[release]
        THEN sav_files(p, release, ver, vf + 1, acc)
    ELSE sav_files(p, release, ver, vf + 1,
                   [sav_insert(p, ver, p.vers[ver].files[vf],
                               find_distribution_name(acc.map, p.vers[ver].files[vf]))
                    EXCEPT !.lines = acc.lines \o @])

\* show_all_versions, the loop over the versions from ver on
RECURSIVE sav_versions(_, _, _, _)
sav_versions(p, release, ver, acc) ==
    IF ~IsGood(ver) THEN acc
    ELSE sav_versions(p, release, NextVer(p, ver), sav_files(p, release, ver, 1, acc))

\* lines 351-352: the "No <suite> version" line of a release without rows
sav_none(release, r) ==
    IF ~r.found /\ release # 1
    THEN [r EXCEPT !.lines = Append(@, [tag |-> 0, l |-> <<>>,
                                        s |-> <<"No", " ">> \o official_suites[release]
                                              \o <<" ", "version">>])]
    ELSE r

\* show_all_versions, the loop over official_suites from release on
RECURSIVE sav_releases(_, _, _)
sav_releases(p, release, acc) ==
    IF release > Len(official_suites) THEN acc
    ELSE IF release # 1 /\ ~suite_is_in_cache(official_suites[release])
        THEN sav_releases(p, release + 1, acc)
    ELSE sav_releases(p, release + 1,
                      sav_none(release,
                               sav_versions(p, release, VersionList(p),
                                            [acc EXCEPT !.found = FALSE])))

\* lines 318-324: the heading
sav_head(p) ==
    IF IsGood(p.cur)
    THEN FullName(p) \o <<" ">> \o VerStr(p, p.cur) \o describe_state(p) \o <<"\n">>
    ELSE <<"Not", " ", "installed", "\n">>

\* line 355: table.output() after the heading
sav_output(p, t) == [text |-> sav_head(p) \o TableOutput(t.lines, 1), map |-> t.map]

\* show_all_versions on the memo m: [text |-> what it writes, map |-> the memo after]
show_all_versions(m, p) ==
    sav_output(p, sav_releases(p, 1, [lines |-> <<>>, map |-> m, found |-> FALSE]))

\* enum comparison of line 371
below_automatic_never(state) == FALSE

below_automatic(state) == state < UPGRADE_AUTOMATIC

Quiet(m) == [text |-> <<>>, map |-> m, fault |-> FALSE]

Wrote(text, m) == [text |-> text, map |-> m, fault |-> FALSE]

\* lines 381-395: the verdict line.  a is what show_all_versions wrote and left
\* as memo, n what my_name returned for the version the line names.
verdict(p, show_uninstalled, state, a, n) ==
    IF state = UPGRADE_NOT_INSTALLED THEN
        IF show_uninstalled \/ conf.allVersions
        THEN Wrote(a.text \o FullName(p) \o <<" ", "not", " ", "installed", "\n">>, a.map)
        ELSE Wrote(a.text, a.map)
    ELSE IF state = UPGRADE_AUTOMATIC THEN
        IF ~IsGood(p.cand) /\ endVerBad
        THEN [text |-> a.text, map |-> n.map, fault |-> TRUE]
        ELSE Wrote(Put(print_only(a.text \o n.ret),
                       <<" ", "upgradeable", " ", "from", " ">> \o VerStr(p, p.cur)
                       \o <<" ", "to", " ">> \o VerStr(p, p.cand) \o <<"\n">>), n.map)
    ELSE IF state = UPGRADE_MANUAL THEN
        Wrote(Put(print_only(a.text \o n.ret),
                  <<" ", "*manually*", " ", "upgradeable", " ", "from", " ">>
                  \o VerStr(p, p.cur) \o <<" ", "to", " ">> \o VerStr(p, VersionList(p))
                  \o <<"\n">>), n.map)
    ELSE IF conf.upgradesOnly THEN Wrote(a.text, a.map)
    ELSE IF state = UPGRADE_NOT_AVAIL THEN
        Wrote(a.text \o FullName(p) \o <<" ">> \o VerStr(p, p.cur)
              \o <<" ", "installed:", " ", "No", " ", "available", " ", "version", " ",
                   "in", " ", "archive", "\n">>, a.map)
    ELSE IF state = UPGRADE_UPTODATE THEN
        Wrote(Put(print_only(a.text \o n.ret),
                  <<" ", "uptodate", " ">> \o VerStr(p, p.cur) \o <<"\n">>), n.map)
    ELSE \* state = UPGRADE_DOWNGRADE
        Wrote(Put(print_only(a.text \o n.ret),
                  <<" ">> \o VerStr(p, p.cur)
                  \o <<" ", "newer", " ", "than", " ", "version", " ", "in", " ",
                       "archive", "\n">>), n.map)

\* the my_name call of lines 385, 387, 392 and 394, when the state's branch makes one
verdict_name(p, state, a) ==
    IF state = UPGRADE_AUTOMATIC THEN my_name(a.map, p, p.cand)
    ELSE IF state = UPGRADE_MANUAL THEN my_name(a.map, p, VersionList(p))
    ELSE IF state \in {UPGRADE_UPTODATE, UPGRADE_DOWNGRADE} /\ ~conf.upgradesOnly
        THEN my_name(a.map, p, p.cand)
    ELSE [ret |-> <<>>, map |-> a.map]

\* lines 374-395, a being what show_all_versions wrote and left as memo
show_lines(p, show_uninstalled, state, a) ==
    verdict(p, show_uninstalled, state, a, verdict_name(p, state, a))

\* lines 371-395, state being what determine_upgradeability returned
show_state(m, p, show_uninstalled, state) ==
    IF state = TRAPPED THEN [Quiet(m) EXCEPT !.fault = TRUE]
    ELSE IF below_automatic(state) /\ conf.upgradesOnly THEN Quiet(m)
    ELSE show_lines(p, show_uninstalled, state,
                    IF conf.allVersions THEN show_all_versions(m, p)
                    ELSE [text |-> <<>>, map |-> m])

\* show_upgrade_info on the memo m:
\* [text |-> what it writes, map |-> the memo after, fault |-> the process died]
show_upgrade_info(m, p, show_uninstalled) ==
    IF ~IsGood(p.cur) /\ ~show_uninstalled THEN Quiet(m)
    ELSE IF p.sel = StateHold /\ conf.noHold THEN Quiet(m)
    ELSE show_state(m, p, show_uninstalled, determine_upgradeability(p))

(***************************************************************************)
(* Ordering.                                                               *)
(***************************************************************************)
\* the byte order of the atoms package names and architectures are made of
Ord == [a \in {"a", "b", "c", "amd64", "i386"} |->
          CASE a = "a" -> 1 [] a = "b" -> 2 [] a = "c" -> 3
            [] a = "amd64" -> 4 [] a = "i386" -> 5]

\* strcmp: negative, zero or positive
RECURSIVE strcmp(_, _)
strcmp(s, t) ==
    IF s = <<>> /\ t = <<>> THEN 0
    ELSE IF s = <<>> THEN -1
    ELSE IF t = <<>> THEN 1
    ELSE IF Ord[Head(s)] < Ord[Head(t)] THEN -1
    ELSE IF Ord[Head(s)] > Ord[Head(t)] THEN 1
    ELSE strcmp(Tail(s), Tail(t))

\* operator <(PkgIterator, PkgIterator)
pkg_less(a, b) ==
    LET value == strcmp(a.name, b.name)
    IN  IF value = 0 THEN strcmp(a.arch, b.arch) < 0 ELSE value < 0

\* the lambda handed to std::sort in main
group_less(a, b) == strcmp(grps[a].name, grps[b].name) < 0

\* std::sort of the groups vector (group names are unique, so the result is the
\* one sorted arrangement): insertion of g into the sorted sequence s
RECURSIVE insert_group(_, _)
insert_group(s, g) ==
    IF s = <<>> THEN <<g>>
    ELSE IF group_less(g, Head(s)) THEN <<g>> \o s
    ELSE <<Head(s)>> \o insert_group(Tail(s), g)

RECURSIVE sort_groups(_)
sort_groups(s) == IF s = <<>> THEN <<>> ELSE insert_group(sort_groups(Tail(s)), Head(s))

\* the iteration order of an APT::PackageSet (std::set ordered by operator <)
RECURSIVE insert_pkg(_, _)
insert_pkg(s, x) ==
    IF s = <<>> THEN <<x>>
    ELSE IF pkg_less(pkgs[x], pkgs[Head(s)]) THEN <<x>> \o s
    ELSE <<Head(s)>> \o insert_pkg(Tail(s), x)

RECURSIVE set_order(_)
set_order(S) ==
    IF S = {} THEN <<>>
    ELSE LET x == CHOOSE y \in S : TRUE IN insert_pkg(set_order(S \ {x}), x)

\* the packages the walk of lines 493-497 visits: every group of the sorted
\* vector, and within a group its PackageList() in list order
RECURSIVE walk_order(_)
walk_order(gs) == IF gs = <<>> THEN <<>> ELSE grps[Head(gs)].pkgs \o walk_order(Tail(gs))

(***************************************************************************)
(* main.                                                                   *)
(***************************************************************************)
\* APT::PackageSet::FromString: what the resolver may answer for a pattern.  The
\* constructor is REGEX or FNMATCH only for a match; a name holds no '*'.
Resolutions(pattern) ==
    { r \in [ctor : {"UNKNOWN", "REGEX", "FNMATCH"}, pkgs : SUBSET (1..Len(pkgs))] :
        /\ r.ctor # "UNKNOWN" => r.pkgs # {}
        /\ r.ctor = "FNMATCH" => find_first_of(pattern, "*") # 0
        /\ r.ctor = "UNKNOWN" =>
              /\ \A a, b \in r.pkgs : pkgs[a].name = pkgs[b].name
              /\ find_first_of(pattern, "*") # 0 => r.pkgs = {} }

\* what one call of show_upgrade_info on package k leaves, r being what it
\* returned; acc is [out, map, visited, fault]
after_call(acc, k, r) ==
    [out |-> IF r.text # <<>> THEN Append(acc.out, [pkg |-> k, text |-> r.text])
             ELSE acc.out,
     map |-> r.map,
     visited |-> Append(acc.visited, k),
     fault |-> r.fault]

\* the calls of show_upgrade_info for the packages of ps from position k on
RECURSIVE show_each(_, _, _, _)
show_each(ps, k, show_uninstalled, acc) ==
    IF k > Len(ps) \/ acc.fault THEN acc
    ELSE show_each(ps, k + 1, show_uninstalled,
                   after_call(acc, ps[k],
                              show_upgrade_info(acc.map, pkgs[ps[k]], show_uninstalled)))

\* lines 452-463: the usage errors pushed to _error
UsageErrors ==
    (IF fileList # <<>> /\ conf.noHold THEN {"no-hold"} ELSE {})
    \cup (IF fileList = <<>> /\ conf.regexAll THEN {"regex-all"} ELSE {})
    \cup (IF conf.package # <<>> /\ fileList # <<>> THEN {"package"} ELSE {})

\* lines 469-480: the exit code main returns before any package is looked at,
\* -1 when it goes on; fl is cmd.FileList after the -p replacement
early_exit_legacy(pending, fl) ==
    IF conf.initialize /\ ~pending THEN 0
    ELSE IF cacheNull \/ pending THEN (IF cacheNull /\ fl = <<>> THEN 2 ELSE 1)
    ELSE -1

early_exit(pending, fl) ==
    IF conf.initialize /\ ~pending THEN 0
    ELSE IF cacheNull \/ pending THEN 1
    ELSE -1

\* lines 436-480 and the sort of 483-491
MainStart ==
    /\ pc = "start"
    /\ LET pending == (diag \cup UsageErrors) # {}
           fl == IF conf.package # <<>> THEN <<conf.package>> ELSE fileList
       IN  IF ~conf.parseOK THEN
               /\ pc' = "done" /\ exitCode' = 1
               /\ UNCHANGED <<fileList, order>>
           ELSE IF conf.help THEN
               /\ pc' = "done" /\ exitCode' = 0
               /\ UNCHANGED <<fileList, order>>
           ELSE IF early_exit(pending, fl) # -1 THEN
               /\ pc' = "done" /\ exitCode' = early_exit(pending, fl)
               /\ fileList' = fl /\ UNCHANGED order
           ELSE IF fl = <<>> THEN
               /\ pc' = "walk" /\ order' = sort_groups([g \in 1..Len(grps) |-> g])
               /\ fileList' = fl /\ UNCHANGED exitCode
           ELSE
               /\ pc' = "patterns"
               /\ fileList' = fl /\ UNCHANGED <<exitCode, order>>
    /\ diag' = IF conf.parseOK /\ ~conf.help THEN diag \cup UsageErrors ELSE diag
    /\ idx' = 1
    /\ UNCHANGED <<cacheVars, inputVars, map, first, out, visited, arg, ret>>

\* lines 493-497, one call of show_upgrade_info; past the last package main returns
WalkStep ==
    /\ pc = "walk"
    /\ \E ps \in {walk_order(order)} :
       IF idx > Len(ps) THEN
           /\ pc' = "done" /\ exitCode' = 0
           /\ UNCHANGED <<idx, map, out, visited>>
       ELSE \E one \in {show_each(<<ps[idx]>>, 1, FALSE,
                                   [out |-> out, map |-> map, visited |-> visited,
                                    fault |-> FALSE])} :
                /\ out' = one.out /\ map' = one.map /\ visited' = one.visited
                /\ pc' = IF one.fault THEN "aborted" ELSE "walk"
                /\ idx' = idx + 1
                /\ UNCHANGED exitCode
    /\ UNCHANGED <<cacheVars, inputVars, fileList, diag, first, order, arg, ret>>

\* the condition of lines 513-518
exit_two_any_count(r, pattern) ==
    /\ r.ctor = "UNKNOWN"
    /\ conf.upgradesOnly
    /\ find_first_of(pattern, "*") = 0
    /\ (r.pkgs = {} \/ determine_upgradeability(pkgs[Head(set_order(r.pkgs))])
                          < UPGRADE_AUTOMATIC)

exit_two(r, pattern) ==
    /\ r.ctor = "UNKNOWN"
    /\ Len(fileList) = 1
    /\ conf.upgradesOnly
    /\ find_first_of(pattern, "*") = 0
    /\ (r.pkgs = {} \/ determine_upgradeability(pkgs[Head(set_order(r.pkgs))])
                          < UPGRADE_AUTOMATIC)

\* line 518 reaches the trap of determine_upgradeability
exit_traps(r, pattern) ==
    /\ r.ctor = "UNKNOWN"
    /\ Len(fileList) = 1
    /\ conf.upgradesOnly
    /\ find_first_of(pattern, "*") = 0
    /\ r.pkgs # {}
    /\ determine_upgradeability(pkgs[Head(set_order(r.pkgs))]) = TRAPPED

\* lines 500-520, one iteration of the pattern loop; past the last pattern main returns
PatternStep ==
    /\ pc = "patterns"
    /\ IF idx > Len(fileList) THEN
           /\ pc' = "done" /\ exitCode' = 0
           /\ UNCHANGED <<idx, map, out, visited>>
       ELSE \E r \in {resolver[fileList[idx]]} :
            \E s \in {show_each(set_order(r.pkgs), 1,
                                 conf.regexAll \/ r.ctor = "UNKNOWN",
                                 [out |-> out, map |-> map, visited |-> visited,
                                  fault |-> FALSE])} :
                /\ out' = s.out /\ map' = s.map /\ visited' = s.visited
                /\ IF s.fault \/ exit_traps(r, fileList[idx]) THEN pc' = "aborted" /\ UNCHANGED exitCode
                   ELSE IF exit_two(r, fileList[idx]) THEN pc' = "done" /\ exitCode' = 2
                   ELSE pc' = "patterns" /\ UNCHANGED exitCode
                /\ idx' = idx + 1
    /\ UNCHANGED <<cacheVars, inputVars, fileList, diag, first, order, arg, ret>>

NextMain == MainStart \/ WalkStep \/ PatternStep

(***************************************************************************)
(* Direct calls of one function, for the specifications of a function.     *)
(***************************************************************************)
CallClassify ==
    /\ pc = "apply"
    /\ \E i \in 1..Len(pkgs) :
         /\ arg' = <<i>>
         /\ ret' = determine_upgradeability(pkgs[i])
    /\ UNCHANGED <<cacheVars, inputVars, fileList, diag, map, first, pc, idx, order, out, visited, exitCode>>

CallFind ==
    /\ pc = "apply"
    /\ \E f \in DOMAIN files :
         LET r == find_distribution_name(map, f)
         IN  /\ arg' = <<f>>
             /\ ret' = r.ret
             /\ map' = r.map
             /\ first' = IF f \in DOMAIN first THEN first
                         ELSE [g \in DOMAIN first \cup {f} |->
                                 IF g = f THEN r.ret ELSE first[g]]
    /\ UNCHANGED <<cacheVars, inputVars, fileList, diag, pc, idx, order, out, visited, exitCode>>

CallMyName ==
    /\ pc = "apply"
    /\ \E i \in 1..Len(pkgs) : \E c \in 1..Len(pkgs[i].vers) :
         LET r == my_name(map, pkgs[i], c)
         IN  /\ arg' = <<i, c>>
             /\ ret' = r.ret
             /\ map' = r.map
    /\ UNCHANGED <<cacheVars, inputVars, fileList, diag, first, pc, idx, order, out, visited, exitCode>>

(***************************************************************************)
(* Initial states: cache snapshots and command lines.                      *)
(***************************************************************************)
EmptyMap == [f \in {} |-> <<>>]

NoResolver == [t \in {} |-> [ctor |-> "UNKNOWN", pkgs |-> {}]]

NoConf == [upgradesOnly |-> FALSE, brief |-> FALSE, allVersions |-> FALSE,
           regexAll |-> FALSE, noHold |-> FALSE, initialize |-> FALSE,
           help |-> FALSE, parseOK |-> TRUE, package |-> <<>>]

\* a package whose versions carry the origin-file lists `lists` (newest first);
\* version IDs are base + position
Pkg(name, arch, lists, cur, cand, sel, base) ==
    [name |-> name, arch |-> arch,
     vers |-> [i \in 1..Len(lists) |->
                 [id |-> base + i, str |-> <<ToString(9 - i)>>, files |-> lists[i]]],
     cur |-> cur, cand |-> cand, sel |-> sel, inst |-> 0,
     curst |-> IF cur = 0 THEN 0 ELSE 6]

File(archive, codename, notSource, prio) ==
    [archive |-> archive, codename |-> codename, site |-> <<"deb.example.org">>,
     notSource |-> notSource, prio |-> prio]

\* the dpkg status file, a stable repository, an experimental one
RunFiles == <<File(<<"now">>, <<>>, TRUE, 100),
              File(<<"stable">>, <<"bookworm">>, FALSE, 500),
              File(<<"experimental">>, <<>>, FALSE, 1)>>

RunSrcs == <<[dist |-> <<"stable">>, indexes |-> {2}],
             [dist |-> <<"experimental">>, indexes |-> {3}]>>

ProgramStart ==
    /\ fileList = argv
    /\ map = EmptyMap /\ first = EmptyMap
    /\ idx = 0 /\ order = <<>> /\ out = <<>> /\ visited = <<>>
    /\ exitCode = -1 /\ arg = <<>>

\* --- the classifier alone: every shape of one package ---
InitClassify ==
    /\ files = [f \in 1..MaxFiles |-> File(<<"stable">>, <<>>, FALSE, 500)]
    /\ srcs = <<>>
    /\ \E n \in 0..MaxVers :
         \E lists \in [1..n -> {[j \in 1..k |-> j] : k \in 1..MaxFiles}] :
           \E cur \in 0..n : \E cand \in 0..n :
             pkgs = <<Pkg(<<"a">>, <<"amd64">>, lists, cur, cand, 1, 0)>>
    /\ grps = <<[name |-> <<"a">>, pkgs |-> <<1>>]>>
    /\ endVerID \in 0..MaxVers /\ endVerBad = FALSE /\ resolver = NoResolver
    /\ conf = NoConf /\ argv = <<>> /\ cacheNull = FALSE /\ diag = {}
    /\ ProgramStart /\ pc = "apply" /\ ret = -1

NextClassify == CallClassify

SpecClassify == InitClassify /\ [][NextClassify]_vars

\* --- the suite attributor alone ---
AttrFiles == {1, 2}
AttrDists == {<<"stable", "/", "updates">>, <<"bookworm">>, <<"sid">>}
AttrEntries == [dist : AttrDists, indexes : SUBSET AttrFiles]

InitAttr ==
    /\ files \in [AttrFiles -> {File(a, c, FALSE, 500) :
                                  a \in {<<>>, <<"stable">>}, c \in {<<>>, <<"bookworm">>}}]
    /\ \E n \in 0..MaxSrc : srcs \in [1..n -> AttrEntries]
    /\ pkgs = <<>> /\ grps = <<>>
    /\ endVerID = 0 /\ endVerBad = FALSE /\ resolver = NoResolver
    /\ conf = NoConf /\ argv = <<>> /\ cacheNull = FALSE /\ diag = {}
    /\ ProgramStart /\ pc = "apply" /\ ret = <<>>

NextAttr == CallFind

SpecAttr == InitAttr /\ [][NextAttr]_vars

\* --- the display-name builder ---
NameLists == {l \in UNION {[1..k -> 1..MaxFiles] : k \in 1..MaxFiles} :
                \A i, j \in DOMAIN l : i # j => l[i] # l[j]}

InitName ==
    /\ files \in [1..MaxFiles -> {File(a, <<>>, ns, pr) :
                                    a \in {<<>>, <<"stable">>, <<"testing">>},
                                    ns \in BOOLEAN, pr \in {100, 500}}]
    /\ srcs = <<>>
    /\ \E n \in 1..2 : \E lists \in [1..n -> NameLists] :
         pkgs = <<Pkg(<<"a">>, <<"amd64">>, lists, 0, 1, 1, 0)>>
    /\ grps = <<[name |-> <<"a">>, pkgs |-> <<1>>]>>
    /\ endVerID = 0 /\ endVerBad = FALSE /\ resolver = NoResolver
    /\ conf = NoConf /\ argv = <<>> /\ cacheNull = FALSE /\ diag = {}
    /\ ProgramStart /\ pc = "apply" /\ ret = <<>>

NextName == CallMyName \/ CallFind

SpecName == InitName /\ [][NextName]_vars

\* --- runs of main ---
MaxRunVers == 2
MaxGroups == 3

Patterns == {<<"a">>, <<"a", "*">>}

\* a resolver that answers a name with the packages of that name and a glob with
\* the packages whose name starts as the glob does
NaturalResolver ==
    [pt \in Patterns |->
        LET hits == {i \in 1..Len(pkgs) : pkgs[i].name = <<Head(pt)>>}
        IN  IF find_first_of(pt, "*") = 0 THEN [ctor |-> "UNKNOWN", pkgs |-> hits]
            ELSE IF hits # {} THEN [ctor |-> "FNMATCH", pkgs |-> hits]
            ELSE [ctor |-> "UNKNOWN", pkgs |-> {}]]

RunStart == ProgramStart /\ pc = "start" /\ ret = <<>>

\* the garbage an end candidate iterator reads matters for an installed package
\* without candidate only
EndVerChoice(cur, cand, id) ==
    IF cur # 0 /\ cand = 0
    THEN endVerID \in {0, id} /\ endVerBad \in BOOLEAN
    ELSE endVerID = 0 /\ endVerBad = FALSE

\* origin-file lists: the installed version is the one the status file (1) lists
InstalledLists == {<<1>>, <<2, 1>>, <<1, 2>>}
OtherLists == {<<2>>, <<3>>}

ReportShapes ==
    UNION { UNION { { [lists |-> l, cur |-> cur, cand |-> cand] :
                        l \in {x \in [1..n -> InstalledLists \cup OtherLists] :
                                 \A i \in 1..n : (x[i] \in InstalledLists) <=> (i = cur)},
                        cand \in 0..n }
                    : cur \in 0..n }
            : n \in 0..MaxRunVers }

\* the reporter: one package of every shape, every output option
InitReport ==
    /\ files = RunFiles /\ srcs = RunSrcs
    /\ \E sh \in ReportShapes : \E sel \in {1, StateHold} :
         /\ pkgs = <<Pkg(<<"a">>, <<"amd64">>, sh.lists, sh.cur, sh.cand, sel, 0)>>
         /\ EndVerChoice(sh.cur, sh.cand, sh.cur)
    /\ grps = <<[name |-> <<"a">>, pkgs |-> <<1>>]>>
    /\ resolver = NaturalResolver
    /\ \E u, b, a, n \in BOOLEAN : \E pk \in {<<>>, <<"a">>} :
         conf = [NoConf EXCEPT !.upgradesOnly = u, !.brief = b, !.allVersions = a,
                               !.noHold = n, !.package = pk]
    /\ argv \in {<<>>, << <<"a">> >>, << <<"a", "*">> >>}
    /\ cacheNull = FALSE /\ diag = {}
    /\ RunStart

SpecReport == InitReport /\ [][NextMain]_vars

\* the walk order: every arrangement of up to MaxGroups groups, each listing its
\* per-architecture packages in any order; every package installed and up to date
Names == {<<"a">>, <<"b">>, <<"c">>}
ArchLists == {<< <<"amd64">> >>, << <<"i386">> >>,
              << <<"amd64">>, <<"i386">> >>, << <<"i386">>, <<"amd64">> >>}

GroupTables ==
    {t \in UNION {[1..n -> [name : Names, archs : ArchLists]] : n \in 1..MaxGroups} :
        \A i, j \in DOMAIN t : i # j => t[i].name # t[j].name}

\* the number of packages of the groups before group g
RECURSIVE Before(_, _)
Before(t, g) == IF g <= 1 THEN 0 ELSE Before(t, g - 1) + Len(t[g - 1].archs)

PkgsOfTable(t) ==
    LET total == Before(t, Len(t) + 1)
        grpOf(k) == CHOOSE g \in 1..Len(t) : Before(t, g) < k /\ k <= Before(t, g + 1)
    IN  [k \in 1..total |->
            Pkg(t[grpOf(k)].name, t[grpOf(k)].archs[k - Before(t, grpOf(k))],
                << <<2, 1>> >>, 1, 1, 1, 10 * k)]

GrpsOfTable(t) ==
    [g \in 1..Len(t) |->
        [name |-> t[g].name,
         pkgs |-> [j \in 1..Len(t[g].archs) |-> Before(t, g) + j]]]

InitOrder ==
    /\ files = RunFiles /\ srcs = RunSrcs
    /\ \E t \in GroupTables : pkgs = PkgsOfTable(t) /\ grps = GrpsOfTable(t)
    /\ endVerID = 0 /\ endVerBad = FALSE
    /\ resolver = NaturalResolver
    /\ \E b \in BOOLEAN : conf = [NoConf EXCEPT !.brief = b]
    /\ argv \in {<<>>, << <<"a">> >>}
    /\ cacheNull = FALSE /\ diag = {}
    /\ RunStart

SpecOrder == InitOrder /\ [][NextMain]_vars

\* the driver: every command line of up to MaxPat patterns, every resolver answer
DriverShapes ==
    { [lists |-> << <<2>>, <<1>> >>, cur |-> 2, cand |-> 1],
      [lists |-> << <<3>>, <<1>> >>, cur |-> 2, cand |-> 2],
      [lists |-> << <<2, 1>> >>, cur |-> 1, cand |-> 1],
      [lists |-> << <<2>> >>, cur |-> 0, cand |-> 1],
      [lists |-> << <<2>>, <<1>> >>, cur |-> 2, cand |-> 0] }

DriverCommandLine ==
    /\ argv \in UNION {[1..n -> Patterns] : n \in 0..MaxPat}
    /\ \E u, r, n, i \in BOOLEAN : \E pk \in {<<>>} \cup Patterns :
         \E h \in {<<TRUE, FALSE>>, <<TRUE, TRUE>>, <<FALSE, FALSE>>} :
           conf = [NoConf EXCEPT !.upgradesOnly = u, !.regexAll = r, !.noHold = n,
                                 !.initialize = i, !.package = pk,
                                 !.parseOK = h[1], !.help = h[2]]

\* a failed cache load leaves its error pending; a loaded cache may do so too
LoadOutcomes == {<<FALSE, {}>>, <<FALSE, {"load"}>>, <<TRUE, {"load"}>>}

InitDriver ==
    /\ files = RunFiles /\ srcs = RunSrcs
    /\ \/ \E sh \in DriverShapes :
            /\ pkgs = <<Pkg(<<"a">>, <<"amd64">>, sh.lists, sh.cur, sh.cand, 1, 0)>>
            /\ EndVerChoice(sh.cur, sh.cand, sh.cur)
       \/ /\ \E one, two \in {<<"amd64">>, <<"i386">>} :
               /\ one # two
               /\ pkgs = <<Pkg(<<"a">>, one, << <<2, 1>> >>, 1, 1, 1, 0),
                           Pkg(<<"a">>, two, << <<2>>, <<1>> >>, 2, 1, 1, 10)>>
          /\ endVerID = 0 /\ endVerBad = FALSE
    /\ grps = <<[name |-> <<"a">>, pkgs |-> [j \in 1..Len(pkgs) |-> j]]>>
    /\ resolver \in {r \in [Patterns -> [ctor : {"UNKNOWN", "REGEX", "FNMATCH"},
                                         pkgs : SUBSET (1..Len(pkgs))]] :
                        \A pt \in Patterns : r[pt] \in Resolutions(pt)}
    /\ DriverCommandLine
    /\ \E lo \in LoadOutcomes : cacheNull = lo[1] /\ diag = lo[2]
    /\ (~conf.parseOK \/ conf.help \/ cacheNull \/ diag # {}) =>
           (resolver = NaturalResolver /\ pkgs[1].cur = 1 /\ Len(pkgs) = 1)
    /\ RunStart

SpecDriver == InitDriver /\ [][NextMain]_vars

(***************************************************************************)
(* Claims about the classifier (SpecClassify).                             *)
(***************************************************************************)
\* the package of the last direct call
Called == pkgs[arg[1]]

\* the rules of the classification as the specification words them
ClaimedState(p) ==
    LET I == p.cur
        C == p.cand
        A == p.vers
    IN  IF I = 0 THEN UPGRADE_NOT_INSTALLED
        ELSE IF Len(A) <= 1 /\ Len(A[I].files) <= 1 THEN UPGRADE_NOT_AVAIL
        ELSE IF C # 0 /\ C # I THEN UPGRADE_AUTOMATIC
        ELSE IF Len(A[I].files) > 1 THEN UPGRADE_UPTODATE
        ELSE IF Len(A) >= 1 /\ I # 1 THEN UPGRADE_MANUAL
        ELSE IF I < Len(A) THEN UPGRADE_DOWNGRADE
        ELSE TRAPPED

\* C1: for every installed version, candidate (absent or present) and version
\* list, determine_upgradeability returns the state of the first matching rule of
\* the six, rule 3 being "the candidate is present and differs from the installed
\* version"; an absent candidate never yields automatic-upgrade.
C1_FirstMatchingRule ==
    (pc = "apply" /\ arg # <<>>) => ret = ClaimedState(Called)

\* C2: the classifier returns one of the six upgrade states for every package
\* whose installed version, when present, is in its version list: the trap at
\* the end of determine_upgradeability is never reached.
C2_NeverTraps ==
    (pc = "apply" /\ arg # <<>>) => (ret \in UpgradeStates /\ ret # TRAPPED)

\* C2 witness: a package that fell through every rule down to the last one
\* (installed, not the only offer, candidate not different, a single origin file,
\* installed version first in the list) was classified.
C2_Witness ==
    /\ pc = "apply" /\ arg # <<>>
    /\ Called.cur = 1 /\ Len(Called.vers) > 1 /\ Len(Called.vers[1].files) = 1
    /\ Called.cand = 0 /\ endVerID = Called.vers[1].id
    /\ ret = UPGRADE_DOWNGRADE

\* the case C10 is about: installed, candidate present and equal to the installed
\* version, and the installed version has exactly one origin file
C10_Case(p) == p.cur # 0 /\ p.cand = p.cur /\ Len(p.vers[p.cur].files) = 1

\* C10 as stated: in that case the classifier returns up-to-date.
C10_AsStated ==
    (pc = "apply" /\ arg # <<>> /\ C10_Case(Called)) => ret = UPGRADE_UPTODATE

\* C10 amended: in that case the classifier never returns up-to-date; it returns
\* not-available when the package has no other version, manual-upgrade when the
\* first version of the list is not the installed one, downgrade-only otherwise.
C10_Amended ==
    (pc = "apply" /\ arg # <<>> /\ C10_Case(Called)) =>
        /\ ret # UPGRADE_UPTODATE
        /\ ret = IF Len(Called.vers) = 1 THEN UPGRADE_NOT_AVAIL
                 ELSE IF Called.cur # 1 THEN UPGRADE_MANUAL
                 ELSE UPGRADE_DOWNGRADE

\* C10 witness: such a package, with a newer version on offer, was classified
\* manual-upgrade.
C10_Witness ==
    /\ pc = "apply" /\ arg # <<>> /\ C10_Case(Called)
    /\ Len(Called.vers) > 1 /\ Called.cur # 1
    /\ ret = UPGRADE_MANUAL

(***************************************************************************)
(* Claims about the suite attributor (SpecAttr).                           *)
(***************************************************************************)
\* a string up to, and without, its first "/"
CutAtSlash(s) ==
    LET k == CHOOSE k \in 0..Len(s) :
                 /\ \A i \in 1..k : s[i] # "/"
                 /\ (k = Len(s) \/ s[k + 1] = "/")
    IN  SubSeq(s, 1, k)

\* the non-empty labels file f carries
OwnLabels(f) == {files[f].archive, files[f].codename} \ {<<>>}

\* the source entries that produced f and whose cut name is a label of f
Agreeing(f) ==
    {i \in 1..Len(srcs) : f \in srcs[i].indexes /\ CutAtSlash(srcs[i].dist) \in OwnLabels(f)}

\* archive if non-empty, else codename if non-empty, else empty
Fallback(f) ==
    IF files[f].archive # <<>> THEN files[f].archive
    ELSE IF files[f].codename # <<>> THEN files[f].codename
    ELSE <<>>

\* C9: after any sequence of find_distribution_name calls, the name held for a
\* file f is one of f's own labels or empty: the cut distribution of a source
\* entry that produced f and agrees with a non-empty label of f when there is
\* such an entry, otherwise archive, else codename, else empty; and every call on
\* f returns what the first call on f returned, whatever files were named since.
C9_Attribution ==
    /\ DOMAIN map = DOMAIN first
    /\ \A f \in DOMAIN map :
         /\ map[f] \in OwnLabels(f) \cup {<<>>}
         /\ IF Agreeing(f) # {}
            THEN \E i \in Agreeing(f) : map[f] = CutAtSlash(srcs[i].dist)
            ELSE map[f] = Fallback(f)
         /\ map[f] = first[f]
    /\ (arg # <<>> => ret = first[arg[1]])

\* C9 witness: both files were named; file 1 was produced only by an entry whose
\* distribution matches none of its labels and got its codename, file 2 got the
\* cut distribution "stable" of a "stable/updates" entry.
C9_Witness ==
    /\ arg # <<>> /\ DOMAIN map = AttrFiles
    /\ Len(srcs) = 2
    /\ srcs[1] = [dist |-> <<"sid">>, indexes |-> {1}]
    /\ srcs[2] = [dist |-> <<"stable", "/", "updates">>, indexes |-> {2}]
    /\ files[1].archive = <<>> /\ map[1] = <<"bookworm">>
    /\ map[2] = <<"stable">>

(***************************************************************************)
(* Claims about the display-name builder (SpecName).                       *)
(***************************************************************************)
\* the positions of v's origin-file list whose file is not flagged not-source
SourcePositions(v) == {j \in 1..Len(v.files) : ~files[v.files[j]].notSource}

\* among them the first one of highest pin priority
BestPosition(v) ==
    CHOOSE j \in SourcePositions(v) :
        \A k \in SourcePositions(v) :
            \/ files[v.files[k]].prio < files[v.files[j]].prio
            \/ (files[v.files[k]].prio = files[v.files[j]].prio /\ j <= k)

\* the display name the specification describes
ClaimedName(p, c) ==
    LET v == p.vers[c] IN
    IF SourcePositions(v) = {} THEN FullName(p)
    ELSE LET d == find_distribution_name(EmptyMap, v.files[BestPosition(v)]).ret
         IN  IF d = <<>> THEN FullName(p) ELSE FullName(p) \o <<"/">> \o d

\* C6: my_name(p, v) walks every origin file of v, skips the not-source ones and
\* labels the package with the distribution name of the remaining file of highest
\* pin priority (first on a tie), wherever it stands in v's list; bare full name
\* when that name is empty or no such file exists.
C6_HighestPriorityFile ==
    (pc = "apply" /\ Len(arg) = 2) => ret = ClaimedName(pkgs[arg[1]], arg[2])

(***************************************************************************)
(* Claims about the reporter (SpecReport).                                 *)
(***************************************************************************)
Upgradable(p) == determine_upgradeability(p) \in {UPGRADE_AUTOMATIC, UPGRADE_MANUAL}

\* C3: with upgrades-only set, every package for which anything was written (the
\* verdict line or the all-versions block) is classified automatic-upgrade or
\* manual-upgrade, whatever the other options are.
C3_UpgradesOnly ==
    conf.upgradesOnly => \A i \in 1..Len(out) : Upgradable(pkgs[out[i].pkg])

\* C3 witness: with upgrades-only and all-versions set, an installed package that
\* is not upgradable was handed to show_upgrade_info by exact name and the run
\* ended without any output.
C3_Witness ==
    /\ conf.upgradesOnly /\ conf.allVersions /\ pc = "done"
    /\ visited = <<1>> /\ pkgs[1].cur # 0 /\ ~Upgradable(pkgs[1])
    /\ out = <<>>

\* a text that is a run of non-blank atoms closed by one newline
NameOnlyLine(t) ==
    /\ t # <<>> /\ t[Len(t)] = "\n"
    /\ \A k \in 1..(Len(t) - 1) : t[k] \notin {" ", "\n"}

\* C4: with brief set and all-versions unset, every verdict line written, in
\* every upgrade state that is printed, is the display name followed by a
\* newline, with no other blank in it.
C4_BriefNameOnly ==
    (conf.brief /\ ~conf.allVersions) => \A i \in 1..Len(out) : NameOnlyLine(out[i].text)

(***************************************************************************)
(* Claims about the walk order (SpecOrder).                                *)
(***************************************************************************)
\* (name, architecture) of p strictly before that of q
NameArchBefore(p, q) ==
    \/ strcmp(p.name, q.name) < 0
    \/ (strcmp(p.name, q.name) = 0 /\ strcmp(p.arch, q.arch) < 0)

\* C7: in a run without patterns the packages are reported in ascending order of
\* (name, architecture), whatever order the cache stores groups in and whatever
\* order a group lists its packages in.
C7_NameArchOrder ==
    (argv = <<>> /\ conf.package = <<>>) =>
        \A i, j \in 1..Len(out) :
            i < j => NameArchBefore(pkgs[out[i].pkg], pkgs[out[j].pkg])

(***************************************************************************)
(* Claims about the driver (SpecDriver).                                   *)
(***************************************************************************)
\* main returned after a command line that parsed and did not ask for help
Returned == pc = "done" /\ conf.parseOK /\ ~conf.help

\* the patterns in effect: the positional ones, or the one of -p
Effective == IF conf.package # <<>> THEN <<conf.package>> ELSE argv

\* exactly one pattern, a literal resolved by exact name, upgrades-only set, and
\* the resolved package not upgradable or nothing resolved
SoleLiteralNotUpgradable ==
    /\ Len(Effective) = 1
    /\ \A k \in 1..Len(Effective[1]) : Effective[1][k] # "*"
    /\ resolver[Effective[1]].ctor = "UNKNOWN"
    /\ conf.upgradesOnly
    /\ LET S == resolver[Effective[1]].pkgs
       IN  \/ S = {}
           \/ \E x \in S : /\ \A y \in S \ {x} : NameArchBefore(pkgs[x], pkgs[y])
                           /\ ~Upgradable(pkgs[x])

UsageErrorGiven ==
    \/ (conf.noHold /\ argv # <<>>)
    \/ (conf.regexAll /\ argv = <<>>)
    \/ (conf.package # <<>> /\ argv # <<>>)

====
